---- MODULE Spec2Model ----
(***************************************************************************)
(* A model of dex-pool-scanner-rs: the pool codecs of                      *)
(* src/src/liquidity_pools/mod.rs (UniswapV2, UniswapV3) and the scanner   *)
(* of src/src/rpc/mod.rs (Scanner::start, run_log_subscription,            *)
(* handle_log_event).                                                      *)
(*                                                                         *)
(* Numbers.  A U256 is kept as m * 2^e2 * 5^e5 with m coprime to 10, so    *)
(* that 10^18 or 2^96 fit in a model whose integers are 32 bits wide.  An  *)
(* f64 is kept as the exact rational n/d * 2^e2 * 5^e5 in lowest terms     *)
(* (n, d coprime to each other and to 10); d = 0 stands for the IEEE       *)
(* values the code can produce by dividing by 0.0: n = 1 is +inf, n = 0    *)
(* is NaN.  Rounding to 53 bits is not modelled: a price of the model is   *)
(* the real number the f64 of the code approximates.                       *)
(*                                                                         *)
(* Payloads.  The data of a log is a sequence of complete 32-byte words    *)
(* followed by rem < 32 loose bytes; its length in bytes is what the       *)
(* length checks of the code read, and a 32-byte big-endian slice at a     *)
(* word offset is the word stored there.                                   *)
(***************************************************************************)
EXTENDS Integers, Sequences, FiniteSets, TLC

(***************************************************************************)
(* Arithmetic                                                              *)
(***************************************************************************)
RECURSIVE Gcd(_, _)
Gcd(a, b) == IF b = 0 THEN a ELSE Gcd(b, a % b)

\* How many times p divides n (n > 0), and what is left of n after that.
RECURSIVE StripCount(_, _)
StripCount(n, p) == IF n % p = 0 THEN 1 + StripCount(n \div p, p) ELSE 0

RECURSIVE StripRest(_, _)
StripRest(n, p) == IF n % p = 0 THEN StripRest(n \div p, p) ELSE n

\* The f64 n/d * 2^e2 * 5^e5 in canonical form.
F64(n, d, e2, e5) ==
  IF d = 0 THEN [n |-> IF n = 0 THEN 0 ELSE 1, d |-> 0, e2 |-> 0, e5 |-> 0]
  ELSE IF n = 0 THEN [n |-> 0, d |-> 1, e2 |-> 0, e5 |-> 0]
  ELSE LET n1 == StripRest(StripRest(n, 2), 5)
           d1 == StripRest(StripRest(d, 2), 5)
           g  == Gcd(n1, d1)
       IN  [n  |-> n1 \div g,
            d  |-> d1 \div g,
            e2 |-> e2 + StripCount(n, 2) - StripCount(d, 2),
            e5 |-> e5 + StripCount(n, 5) - StripCount(d, 5)]

F64_ZERO == F64(0, 1, 0, 0)
F64_ONE  == F64(1, 1, 0, 0)
F64_INF  == F64(1, 0, 0, 0)
F64_NAN  == F64(0, 0, 0, 0)

F64IsFinite(x) == x.d # 0
F64IsZero(x)   == x.d # 0 /\ x.n = 0

\* x * y in IEEE arithmetic on non-negative values.
F64Mul(x, y) ==
  IF x = F64_NAN \/ y = F64_NAN THEN F64_NAN
  ELSE IF x = F64_INF \/ y = F64_INF
       THEN (IF F64IsZero(x) \/ F64IsZero(y) THEN F64_NAN ELSE F64_INF)
  ELSE F64(x.n * y.n, x.d * y.d, x.e2 + y.e2, x.e5 + y.e5)

\* x / y in IEEE arithmetic on non-negative values: x/0 is +inf, 0/0 is NaN.
F64Div(x, y) ==
  IF x = F64_NAN \/ y = F64_NAN THEN F64_NAN
  ELSE IF x = F64_INF THEN (IF y = F64_INF THEN F64_NAN ELSE F64_INF)
  ELSE IF y = F64_INF THEN F64_ZERO
  ELSE IF F64IsZero(y) THEN (IF F64IsZero(x) THEN F64_NAN ELSE F64_INF)
  ELSE F64(x.n * y.d, x.d * y.n, x.e2 - y.e2, x.e5 - y.e5)

\* 10f64.powi(k)
F64Powi10(k) == F64(1, 1, k, k)

\* The U256 m * 2^e2 * 5^e5 in canonical form.
U256(m, e2, e5) ==
  IF m = 0 THEN [m |-> 0, e2 |-> 0, e5 |-> 0]
  ELSE [m  |-> StripRest(StripRest(m, 2), 5),
        e2 |-> e2 + StripCount(m, 2),
        e5 |-> e5 + StripCount(m, 5)]

U256_ZERO == U256(0, 0, 0)

U256IsZero(u) == u.m = 0

\* u.to_string().parse::<f64>(): the value of the decimal digits of u.
U256ToF64(u) == F64(u.m, 1, u.e2, u.e5)

(***************************************************************************)
(* Logs                                                                    *)
(***************************************************************************)
WordBytes == 32

\* A 32-byte topic: its high 12 bytes and its low 20 bytes.
B256(hi, lo) == [hi |-> hi, lo |-> lo]

ADDRESS_ZERO == "0000000000000000000000000000000000000000"

\* Address::from_slice(&t[12..])
AddressFromTopic(t) == t.lo

\* log.topics.get(i).map(|t| Address::from_slice(&t[12..])).unwrap_or_default()
TopicAddress(topics, i) ==
  IF i + 1 <= Len(topics) THEN AddressFromTopic(topics[i + 1]) ELSE ADDRESS_ZERO

Data(words, rem) == [words |-> words, rem |-> rem]

\* log.data.len()
DataLen(data) == WordBytes * Len(data.words) + data.rem

\* U256::from_be_slice(&data[32*i .. 32*i + 32]); the code reads it only
\* after checking that the payload is long enough.
WordAt(data, i) == data.words[i + 1]

EthereumLog(address, topics, data) ==
  [address |-> address, topics |-> topics, data |-> data]

SwapEventData(amount0, amount1, price, sender, recipient) ==
  [amount0 |-> amount0, amount1 |-> amount1, price |-> price,
   sender |-> sender, recipient |-> recipient]

\* eyre::Result<T>
Ok(value, self)  == [ok |-> TRUE, value |-> value, self |-> self]
Err(msg, self)   == [ok |-> FALSE, err |-> msg, self |-> self]

(***************************************************************************)
(* Event signatures (topic 0)                                              *)
(***************************************************************************)
\* keccak256("Swap(address,address,int256,int256,uint160,uint128,int24)")
SWAP_V3_TOPIC ==
  B256("c42079f94a6350d7e6235f29", "174924f928cc2ac818eb64fed8004e115fbcca67")

\* keccak256("Swap(address,uint256,uint256,uint256,uint256,address)")
swap_topic ==
  B256("d78ad95fa46c994b6551d0da", "85fc275fe613ce37657fb8d5e3d130840159d822")

\* keccak256("Sync(uint112,uint112)")
sync_topic ==
  B256("1c411e9a96e071241c2f21f7", "726b17ae89e3cab4c78be50438f83b4a47a005e0")

\* keccak256("Transfer(address,address,uint256)"): an event no codec decodes.
TRANSFER_TOPIC ==
  B256("ddf252ad1be2c89b69c2b068", "fc378daa952ba7f163c4a11628f55a4df523b3ef")

(***************************************************************************)
(* UniswapV3                                                               *)
(***************************************************************************)
V3SwapDataLen == 160
SqrtPriceWord == 2
X96 == 96

UniswapV3_new(address, token0_decimals, token1_decimals) ==
  [kind |-> "UniswapV3", address |-> address,
   token0_decimals |-> token0_decimals, token1_decimals |-> token1_decimals,
   sqrt_price_x96 |-> U256_ZERO]

\* A price that is the ratio sqrt_price_x96 / 2^96 itself, not its square.
UniswapV3_calculate_price_unsquared(self, sqrt_price_x96) ==
  F64Mul(F64Div(U256ToF64(sqrt_price_x96), F64(1, 1, X96, 0)),
         F64Powi10(self.token0_decimals - self.token1_decimals))

UniswapV3_calculate_price(self, sqrt_price_x96) ==
  LET q96 == F64(1, 1, X96, 0)
      sqrt_price_f == F64Div(U256ToF64(sqrt_price_x96), q96)
      price == F64Mul(sqrt_price_f, sqrt_price_f)
      decimal_adjustment == F64Powi10(self.token0_decimals - self.token1_decimals)
  IN  F64Mul(price, decimal_adjustment)

\* A decode that prices the event's sqrt price without storing it.
UniswapV3_parse_swap_event_data_stateless(self, log) ==
  IF DataLen(log.data) < V3SwapDataLen
  THEN Err("UniswapV3 Swap log data too short", self)
  ELSE Ok(SwapEventData(WordAt(log.data, 0), WordAt(log.data, 1),
                        UniswapV3_calculate_price(self, WordAt(log.data, SqrtPriceWord)),
                        TopicAddress(log.topics, 1),
                        TopicAddress(log.topics, 2)),
          self)

UniswapV3_parse_swap_event_data(self, log) ==
  IF DataLen(log.data) < V3SwapDataLen
  THEN Err("UniswapV3 Swap log data too short", self)
  ELSE LET sqrt_price_x96 == WordAt(log.data, SqrtPriceWord)
           updated == [self EXCEPT !.sqrt_price_x96 = sqrt_price_x96]
       IN  Ok(SwapEventData(WordAt(log.data, 0), WordAt(log.data, 1),
                            UniswapV3_calculate_price(updated, sqrt_price_x96),
                            TopicAddress(log.topics, 1),
                            TopicAddress(log.topics, 2)),
              updated)

UniswapV3_get_event_signatures == {SWAP_V3_TOPIC}

UniswapV3_get_current_price(self) ==
  UniswapV3_calculate_price(self, self.sqrt_price_x96)

UniswapV3_apply_initial_state(self, result) ==
  IF DataLen(result) >= WordBytes
  THEN Ok("unit", [self EXCEPT !.sqrt_price_x96 = WordAt(result, 0)])
  ELSE Ok("unit", self)

(***************************************************************************)
(* UniswapV2                                                               *)
(***************************************************************************)
SyncDataLen == 64

UniswapV2_new(address, token0_decimals, token1_decimals) ==
  [kind |-> "UniswapV2", address |-> address,
   token0_decimals |-> token0_decimals, token1_decimals |-> token1_decimals,
   reserve0 |-> U256_ZERO, reserve1 |-> U256_ZERO]

\* A price whose decimal adjustment has the exponent's sign reversed.
UniswapV2_calculate_price_reversed_decimals(self, reserve0, reserve1) ==
  IF U256IsZero(reserve0) THEN F64_ZERO
  ELSE F64Mul(F64Div(U256ToF64(reserve1), U256ToF64(reserve0)),
              F64Powi10(self.token1_decimals - self.token0_decimals))

UniswapV2_calculate_price(self, reserve0, reserve1) ==
  IF U256IsZero(reserve0) THEN F64_ZERO
  ELSE LET r0_f == U256ToF64(reserve0)
           r1_f == U256ToF64(reserve1)
           price == F64Div(r1_f, r0_f)
           decimal_adjustment ==
             F64Powi10(self.token0_decimals - self.token1_decimals)
       IN  F64Mul(price, decimal_adjustment)

\* if log.data.len() >= 32*(i+1) { from_be_slice(..) } else { U256::ZERO }
WordAtOrZero(data, i) ==
  IF DataLen(data) >= WordBytes * (i + 1) THEN WordAt(data, i) ELSE U256_ZERO

\* A sync branch that stores reserve0 before it checks the length.
UniswapV2_parse_sync_partial(self, log) ==
  IF DataLen(log.data) < SyncDataLen
  THEN Err("UniswapV2 Sync log data too short",
           IF DataLen(log.data) >= WordBytes
           THEN [self EXCEPT !.reserve0 = WordAt(log.data, 0)] ELSE self)
  ELSE LET updated == [self EXCEPT !.reserve0 = WordAt(log.data, 0),
                                   !.reserve1 = WordAt(log.data, 1)]
       IN  Ok(SwapEventData(U256_ZERO, U256_ZERO,
                            UniswapV2_calculate_price(updated, updated.reserve0,
                                                      updated.reserve1),
                            TopicAddress(log.topics, 1), ADDRESS_ZERO),
              updated)

\* The branch log.topics[0] == sync_topic.
UniswapV2_parse_sync(self, log) ==
  IF DataLen(log.data) < SyncDataLen
  THEN Err("UniswapV2 Sync log data too short", self)
  ELSE LET updated == [self EXCEPT !.reserve0 = WordAt(log.data, 0),
                                   !.reserve1 = WordAt(log.data, 1)]
       IN  Ok(SwapEventData(U256_ZERO, U256_ZERO,
                            UniswapV2_calculate_price(updated, updated.reserve0,
                                                      updated.reserve1),
                            TopicAddress(log.topics, 1), ADDRESS_ZERO),
              updated)

\* A swap branch that derives the price from the amounts of the swap.
UniswapV2_parse_swap_from_amounts(self, log) ==
  Ok(SwapEventData(WordAtOrZero(log.data, 0), WordAtOrZero(log.data, 1),
                   UniswapV2_calculate_price(self, WordAtOrZero(log.data, 0),
                                             WordAtOrZero(log.data, 1)),
                   TopicAddress(log.topics, 1), ADDRESS_ZERO),
     self)

\* The branch log.topics[0] == swap_topic.
UniswapV2_parse_swap(self, log) ==
  Ok(SwapEventData(WordAtOrZero(log.data, 0), WordAtOrZero(log.data, 1),
                   UniswapV2_calculate_price(self, self.reserve0, self.reserve1),
                   TopicAddress(log.topics, 1), ADDRESS_ZERO),
     self)

UniswapV2_parse_swap_event_data(self, log) ==
  IF Len(log.topics) = 0 THEN Err("Log has no topics", self)
  ELSE IF log.topics[1] = sync_topic THEN UniswapV2_parse_sync(self, log)
  ELSE IF log.topics[1] = swap_topic THEN UniswapV2_parse_swap(self, log)
  ELSE Err("Not a recognized UniswapV2 event", self)

UniswapV2_get_event_signatures == {swap_topic, sync_topic}

UniswapV2_get_current_price(self) ==
  UniswapV2_calculate_price(self, self.reserve0, self.reserve1)

\* A seed that refuses a snapshot shorter than getReserves() returns.
UniswapV2_apply_initial_state_strict(self, result) ==
  IF DataLen(result) >= SyncDataLen
  THEN Ok("unit", [self EXCEPT !.reserve0 = WordAt(result, 0),
                               !.reserve1 = WordAt(result, 1)])
  ELSE Err("UniswapV2 getReserves result too short", self)

UniswapV2_apply_initial_state(self, result) ==
  IF DataLen(result) >= SyncDataLen
  THEN Ok("unit", [self EXCEPT !.reserve0 = WordAt(result, 0),
                               !.reserve1 = WordAt(result, 1)])
  ELSE Ok("unit", self)

(***************************************************************************)
(* BaseLiquidityPool: dispatch on the boxed codec                          *)
(***************************************************************************)
parse_swap_event_data(lp, log) ==
  IF lp.kind = "UniswapV2" THEN UniswapV2_parse_swap_event_data(lp, log)
  ELSE UniswapV3_parse_swap_event_data(lp, log)

get_event_signatures(lp) ==
  IF lp.kind = "UniswapV2" THEN UniswapV2_get_event_signatures
  ELSE UniswapV3_get_event_signatures

get_current_price(lp) ==
  IF lp.kind = "UniswapV2" THEN UniswapV2_get_current_price(lp)
  ELSE UniswapV3_get_current_price(lp)

apply_initial_state(lp, result) ==
  IF lp.kind = "UniswapV2" THEN UniswapV2_apply_initial_state(lp, result)
  ELSE UniswapV3_apply_initial_state(lp, result)

(***************************************************************************)
(* Option<T> and HashMap<K, V>                                             *)
(***************************************************************************)
None == [some |-> FALSE]
Some(v) == [some |-> TRUE, value |-> v]

EmptyMap == [k \in {} |-> None]

HashMapContains(map, k) == k \in DOMAIN map

\* An insert that returns what the map holds under k after storing v.
HashMapInsert_returns_stored(map, k, v) ==
  [map |-> [a \in (DOMAIN map) \cup {k} |-> IF a = k THEN v ELSE map[a]],
   old |-> Some(v)]

\* An insert into a clone of the map: the map itself keeps what it held.
HashMapInsert_into_clone(map, k, v) ==
  [map |-> map,
   old |-> IF k \in DOMAIN map THEN Some(map[k]) ELSE None]

\* HashMap::insert: stores v under k and returns what k held before.
HashMapInsert(map, k, v) ==
  [map |-> [a \in (DOMAIN map) \cup {k} |-> IF a = k THEN v ELSE map[a]],
   old |-> IF k \in DOMAIN map THEN Some(map[k]) ELSE None]

(***************************************************************************)
(* Strings of the protocol ids, as sequences of characters                 *)
(***************************************************************************)
UpperCase == <<"A", "B", "C", "D", "E", "F", "G", "H", "I", "J", "K", "L", "M",
               "N", "O", "P", "Q", "R", "S", "T", "U", "V", "W", "X", "Y", "Z">>
LowerCase == <<"a", "b", "c", "d", "e", "f", "g", "h", "i", "j", "k", "l", "m",
               "n", "o", "p", "q", "r", "s", "t", "u", "v", "w", "x", "y", "z">>

LowerChar(c) ==
  IF \E i \in DOMAIN UpperCase : UpperCase[i] = c
  THEN LowerCase[CHOOSE i \in DOMAIN UpperCase : UpperCase[i] = c]
  ELSE c

\* str::to_lowercase
ToLowercase(s) == [i \in 1..Len(s) |-> LowerChar(s[i])]

\* str::contains
Contains(s, sub) ==
  \E i \in 1..(Len(s) - Len(sub) + 1) : SubSeq(s, i, i + Len(sub) - 1) = sub

(***************************************************************************)
(* Discovery (src/src/discovery/mod.rs): what Scanner::start is handed     *)
(***************************************************************************)
ProtocolConfig(id, pool_type) == [id |-> id, pool_type |-> pool_type, enabled |-> TRUE]

UNISWAP_V2 == ProtocolConfig(<<"u", "n", "i", "s", "w", "a", "p", "_", "v", "2">>, "UniswapV2")
UNISWAP_V3 == ProtocolConfig(<<"u", "n", "i", "s", "w", "a", "p", "_", "v", "3">>, "UniswapV3")
\* A constant-product protocol whose key in protocols.json does not spell "v2".
SUSHISWAP  == ProtocolConfig(<<"s", "u", "s", "h", "i", "s", "w", "a", "p">>, "UniswapV2")

\* The enabled protocols of protocols.json, in the order load_protocols_file
\* pushed them.
ProtocolFiles == {<<UNISWAP_V2, UNISWAP_V3>>, <<SUSHISWAP>>}

\* tokens.json: an empty whitelist filters nothing.
TokenWhitelists == {{}, {"WETH", "USDC"}}

\* What the subgraph of a protocol answers: the pairs (pools) it indexes.
SubgraphPools(config) ==
  IF config = UNISWAP_V2
  THEN <<[id |-> "0xA1", token0 |-> "WETH", token0_decimals |-> 18,
          token1 |-> "USDC", token1_decimals |-> 6]>>
  ELSE IF config = UNISWAP_V3
  THEN <<[id |-> "0xA2", token0 |-> "WETH", token0_decimals |-> 18,
          token1 |-> "DAI", token1_decimals |-> 18]>>
  ELSE <<[id |-> "0xA3", token0 |-> "WETH", token0_decimals |-> 18,
          token1 |-> "USDC", token1_decimals |-> 6]>>

PoolAddresses == {"0xA1", "0xA2", "0xA3"}

CachedPool(address, protocol, token0, token0_decimals, token1, token1_decimals) ==
  [address |-> address, protocol |-> protocol,
   token0 |-> token0, token0_decimals |-> token0_decimals,
   token1 |-> token1, token1_decimals |-> token1_decimals]

fetch_pools_from_protocol(config) ==
  IF ~config.enabled THEN <<>>
  ELSE LET found == SubgraphPools(config)
       IN  [i \in 1..Len(found) |->
              CachedPool(found[i].id, config.id,
                         found[i].token0, found[i].token0_decimals,
                         found[i].token1, found[i].token1_decimals)]

RECURSIVE discover_pools(_)
discover_pools(protocols) ==
  IF protocols = <<>> THEN <<>>
  ELSE fetch_pools_from_protocol(Head(protocols)) \o discover_pools(Tail(protocols))

filter_pools_by_token_whitelist(all_pools, whitelist) ==
  IF whitelist = {} THEN all_pools
  ELSE SelectSeq(all_pools,
                 LAMBDA p : p.token0 \in whitelist /\ p.token1 \in whitelist)

(***************************************************************************)
(* Bounds and inputs of the model                                          *)
(***************************************************************************)
MaxLoops   == 2   \* calls of Scanner::start, each spawning one subscription task
MaxRecords == 2   \* records the feeds deliver in all
MaxTime    == 2   \* distinct readings of the wall clock (seconds)
MaxWords   == 5   \* complete words of a payload of the codec-level inputs
MaxInserts == 3   \* insertions into the price cache taken on its own

Loops == 1..MaxLoops
Timestamps == 1..MaxTime

\* The first k words of r0, r1, sqrt, 0, 0, ... followed by rem loose bytes.
Payload(r0, r1, sqrt, k, rem) ==
  Data([i \in 1..k |-> IF i = 1 THEN r0
                       ELSE IF i = 2 THEN r1
                       ELSE IF i = 3 THEN sqrt ELSE U256_ZERO],
       rem)

\* What the tracked contracts emit: the events as the protocols encode them
\* (Sync 64 bytes, V2 Swap 128 bytes, V3 Swap 160 bytes), and each of them
\* one byte short.
FeedEvents ==
  {<<sync_topic, Payload(U256(3, 0, 0), U256(6, 0, 0), U256_ZERO, 2, 0)>>,
   <<sync_topic, Payload(U256(6, 0, 0), U256(3, 0, 0), U256_ZERO, 2, 0)>>,
   <<sync_topic, Payload(U256(3, 0, 0), U256(6, 0, 0), U256_ZERO, 1, WordBytes - 1)>>,
   <<swap_topic, Payload(U256(7, 0, 0), U256_ZERO, U256_ZERO, 4, 0)>>,
   <<swap_topic, Payload(U256(7, 0, 0), U256_ZERO, U256_ZERO, 3, WordBytes - 1)>>,
   <<SWAP_V3_TOPIC, Payload(U256(7, 0, 0), U256(9, 0, 0), U256(1, X96, 0), 5, 0)>>,
   <<SWAP_V3_TOPIC, Payload(U256(9, 0, 0), U256(7, 0, 0), U256(3, X96, 0), 5, 0)>>,
   <<SWAP_V3_TOPIC, Payload(U256(7, 0, 0), U256(9, 0, 0), U256(1, X96, 0), 4, WordBytes - 1)>>}

(***************************************************************************)
(* The scanner (src/src/rpc/mod.rs)                                        *)
(***************************************************************************)
VARIABLES
  pools,             \* ScannerState.pools
  liquidity_pools,   \* ScannerState.liquidity_pools
  current_prices,    \* ScannerState.current_prices
  pc,                \* where each spawned task is
  filter,            \* the Filter each task subscribed with
  log,               \* the record a task took from its stream
  frame,             \* locals of handle_log_event: cached_pool, new_price, old_price
  result,            \* what the last handle_log_event of a task returned
  received,          \* how many records a task has taken from its stream
  decoded,           \* history: the records <<task, k>> whose decode succeeded
  inserted,          \* history: the cache insertions, in order
  delivered,         \* history: the callback invocations, in order
  protocol_configs,  \* the protocols the last Scanner::start loaded
  start_result,      \* what each call of Scanner::start returned to its caller
  scanner_dropped,   \* the owner has dropped the Scanner value
  cdc,               \* a codec driven directly through its trait methods
  cdc_call,          \* the call about to be made on cdc, and its argument
  cdc_last,          \* what the last call on cdc returned
  cdc_synced         \* the reserves the last successful sync or seed gave cdc

owner_vars == <<protocol_configs, start_result, scanner_dropped>>
scanner_vars == <<pools, liquidity_pools, current_prices, pc, filter, log, frame,
                  result, received, decoded, inserted, delivered,
                  protocol_configs, start_result, scanner_dropped>>
codec_vars == <<cdc, cdc_call, cdc_last, cdc_synced>>
vars == <<pools, liquidity_pools, current_prices, pc, filter, log, frame,
          result, received, decoded, inserted, delivered,
          protocol_configs, start_result, scanner_dropped,
          cdc, cdc_call, cdc_last, cdc_synced>>

NoLog == [address |-> ADDRESS_ZERO, topics |-> <<>>, data |-> Data(<<>>, 0)]
NoFrame == [entered |-> FALSE]
NoFilter == [address |-> {}, topics0 |-> {}]

PoolPrice(pool_address, token0_price, token1_price, timestamp) ==
  [pool_address |-> pool_address, token0_price |-> token0_price,
   token1_price |-> token1_price, timestamp |-> timestamp]

\* keccak256 of an event signature, as Filter::events computes it.
Keccak256(signature) ==
  CASE signature = "Swap(address,address,int256,int256,uint160,uint128,int24)" -> SWAP_V3_TOPIC
    [] signature = "Swap(address,uint256,uint256,uint256,uint256,address)" -> swap_topic
    [] signature = "Sync(uint112,uint112)" -> sync_topic

\* Filter::new().address(addresses).events(signatures)
Filter(addresses, signatures) ==
  [address |-> {addresses[i] : i \in DOMAIN addresses},
   topics0 |-> {Keccak256(sig) : sig \in signatures}]

\* The node delivers a log to a subscription when the filter matches it.
FilterMatches(f, lg) ==
  /\ lg.address \in f.address
  /\ Len(lg.topics) >= 1
  /\ lg.topics[1] \in f.topics0

FeedLogs ==
  {EthereumLog(a, <<e[1]>>, e[2]) : a \in PoolAddresses, e \in FeedEvents}

\* Scanner::new
ScannerInit ==
  /\ pools = <<>>
  /\ liquidity_pools = EmptyMap
  /\ current_prices = EmptyMap
  /\ pc = [l \in Loops |-> "unspawned"]
  /\ filter = [l \in Loops |-> NoFilter]
  /\ log = [l \in Loops |-> NoLog]
  /\ frame = [l \in Loops |-> NoFrame]
  /\ result = [l \in Loops |-> "none"]
  /\ received = [l \in Loops |-> 0]
  /\ decoded = {}
  /\ inserted = <<>>
  /\ delivered = <<>>
  /\ protocol_configs = <<>>
  /\ start_result = [l \in Loops |-> "none"]
  /\ scanner_dropped = FALSE

\* The codec a pool gets in Scanner::start.
NewLiquidityPool(pool) ==
  IF Contains(ToLowercase(pool.protocol), <<"v", "2">>)
  THEN UniswapV2_new(pool.address, pool.token0_decimals, pool.token1_decimals)
  ELSE UniswapV3_new(pool.address, pool.token0_decimals, pool.token1_decimals)

\* lp_map after the loop "for pool in &pools { lp_map.insert(..) }": a later
\* pool of the same address replaces an earlier one.
BuildLpMap(ps) ==
  [a \in {ps[i].address : i \in DOMAIN ps} |->
     LET last == CHOOSE i \in DOMAIN ps :
                   /\ ps[i].address = a
                   /\ \A j \in DOMAIN ps : ps[j].address = a => j <= i
     IN  NewLiquidityPool(ps[last])]

\* Scanner::start: discover, filter, replace the registry, spawn the task.
Start(l) ==
  /\ pc[l] = "unspawned"
  /\ ~scanner_dropped
  /\ \A k \in Loops : k < l => pc[k] # "unspawned"
  /\ \E file \in ProtocolFiles, token_whitelist \in TokenWhitelists :
       LET all_pools == discover_pools(file)
           ps == filter_pools_by_token_whitelist(all_pools, token_whitelist)
           addresses == [i \in DOMAIN ps |-> ps[i].address]
       IN  /\ protocol_configs' = file
           /\ pools' = ps
           /\ liquidity_pools' = BuildLpMap(ps)
           /\ filter' = [filter EXCEPT ![l] =
                Filter(addresses,
                       {"Swap(address,address,int256,int256,uint160,uint128,int24)",
                        "Swap(address,uint256,uint256,uint256,uint256,address)",
                        "Sync(uint112,uint112)"})]
  /\ pc' = [pc EXCEPT ![l] = "subscribe"]
  /\ start_result' = [start_result EXCEPT ![l] = "Ok"]
  /\ UNCHANGED <<current_prices, log, frame, result, received, decoded,
                 inserted, delivered, scanner_dropped, codec_vars>>

\* The owner drops the Scanner. The struct holds two Arcs and Scanner::start
\* kept no JoinHandle: the spawned tasks own clones of both and run on.
DropScanner ==
  /\ ~scanner_dropped
  /\ scanner_dropped' = TRUE
  /\ UNCHANGED <<pools, liquidity_pools, current_prices, pc, filter, log, frame,
                 result, received, decoded, inserted, delivered,
                 protocol_configs, start_result, codec_vars>>

\* A task that subscribes again after its subscription has failed.
Subscribe_retry(l) ==
  /\ pc[l] \in {"subscribe", "stopped_err"}
  /\ pc' = [pc EXCEPT ![l] = "next"]
  /\ UNCHANGED <<pools, liquidity_pools, current_prices, filter, log, frame,
                 result, received, decoded, inserted, delivered,
                 owner_vars, codec_vars>>

\* provider.subscribe_logs(&filter).await succeeds.
Subscribe(l) ==
  /\ pc[l] = "subscribe"
  /\ pc' = [pc EXCEPT ![l] = "next"]
  /\ UNCHANGED <<pools, liquidity_pools, current_prices, filter, log, frame,
                 result, received, decoded, inserted, delivered,
                 owner_vars, codec_vars>>

\* provider.subscribe_logs(&filter).await? fails: the task ends with Err.
SubscribeFails(l) ==
  /\ pc[l] = "subscribe"
  /\ pc' = [pc EXCEPT ![l] = "stopped_err"]
  /\ UNCHANGED <<pools, liquidity_pools, current_prices, filter, log, frame,
                 result, received, decoded, inserted, delivered,
                 owner_vars, codec_vars>>

TotalReceived == LET RECURSIVE Sum(_)
                     Sum(S) == IF S = {} THEN 0
                               ELSE LET x == CHOOSE x \in S : TRUE
                                    IN  received[x] + Sum(S \ {x})
                 IN  Sum(Loops)

\* A loop that takes the next record while the current one is still between
\* its decode and its callback (the handler spawned instead of awaited).
StreamNext_eager(l) ==
  /\ pc[l] \in {"next", "insert", "notify"}
  /\ TotalReceived < MaxRecords
  /\ \E lg \in FeedLogs :
       /\ FilterMatches(filter[l], lg)
       /\ log' = [log EXCEPT ![l] = lg]
  /\ received' = [received EXCEPT ![l] = @ + 1]
  /\ pc' = [pc EXCEPT ![l] = "handle"]
  /\ UNCHANGED <<pools, liquidity_pools, current_prices, filter, frame, result,
                 decoded, inserted, delivered, owner_vars, codec_vars>>

\* stream.next().await yields Some(log).
StreamNext(l) ==
  /\ pc[l] = "next"
  /\ TotalReceived < MaxRecords
  /\ \E lg \in FeedLogs :
       /\ FilterMatches(filter[l], lg)
       /\ log' = [log EXCEPT ![l] = lg]
  /\ received' = [received EXCEPT ![l] = @ + 1]
  /\ pc' = [pc EXCEPT ![l] = "handle"]
  /\ UNCHANGED <<pools, liquidity_pools, current_prices, filter, frame, result,
                 decoded, inserted, delivered, owner_vars, codec_vars>>

\* stream.next().await yields None: the feed is closed, the task returns Ok(()).
StreamEnd(l) ==
  /\ pc[l] = "next"
  /\ pc' = [pc EXCEPT ![l] = "stopped_ok"]
  /\ UNCHANGED <<pools, liquidity_pools, current_prices, filter, log, frame,
                 result, received, decoded, inserted, delivered,
                 owner_vars, codec_vars>>

\* pools.iter().find(|p| p.address == pool_address).cloned()
FindCachedPool(ps, pool_address) ==
  IF \E i \in DOMAIN ps : ps[i].address = pool_address
  THEN Some(ps[CHOOSE i \in DOMAIN ps :
                 /\ ps[i].address = pool_address
                 /\ \A j \in DOMAIN ps : ps[j].address = pool_address => i <= j])
  ELSE None

\* guard.liquidity_pools.get_mut(&pool_address).ok_or_else(..)
LookupLiquidityPool(map, pool_address) ==
  IF HashMapContains(map, pool_address) THEN Some(map[pool_address]) ELSE None

\* A loop that leaves the "while let" with break when a record fails.
LoopOnError_break == "stopped_ok"

\* A loop that propagates the error of a record with "?" and ends.
LoopOnError_propagate == "stopped_err"

\* run_log_subscription: "if let Err(e) = handle_log_event(..).await { warn!(..) }"
\* and the loop takes the next record.
LoopOnError == "next"

\* handle_log_event, first critical section and the construction of
\* new_price: look the codec up, decode, find the descriptor, read the clock.
\* An Err returns to the loop, which logs it and takes the next record.
HandleDecode(l) ==
  /\ pc[l] = "handle"
  /\ LET pool_address == log[l].address
         lp == LookupLiquidityPool(liquidity_pools, pool_address)
     IN  IF ~lp.some
         THEN /\ result' = [result EXCEPT ![l] = "No liquidity pool for address"]
              /\ pc' = [pc EXCEPT ![l] = LoopOnError]
              /\ UNCHANGED <<liquidity_pools, frame, decoded>>
         ELSE LET parsed == parse_swap_event_data(lp.value, log[l])
                  cached_pool == FindCachedPool(pools, pool_address)
              IN  /\ liquidity_pools' = [liquidity_pools EXCEPT ![pool_address] = parsed.self]
                  /\ decoded' = IF parsed.ok THEN decoded \cup {<<l, received[l]>>}
                                ELSE decoded
                  /\ IF ~parsed.ok
                     THEN /\ result' = [result EXCEPT ![l] = parsed.err]
                          /\ pc' = [pc EXCEPT ![l] = LoopOnError]
                          /\ UNCHANGED frame
                     ELSE IF ~cached_pool.some
                     THEN /\ result' = [result EXCEPT ![l] = "No cached pool for address"]
                          /\ pc' = [pc EXCEPT ![l] = LoopOnError]
                          /\ UNCHANGED frame
                     ELSE \E now \in Timestamps :
                          /\ frame' = [frame EXCEPT ![l] =
                               [entered |-> TRUE,
                                cached_pool |-> cached_pool.value,
                                new_price |->
                                  PoolPrice(pool_address, parsed.value.price,
                                            F64Div(F64_ONE, parsed.value.price), now),
                                old_price |-> None]]
                          /\ result' = [result EXCEPT ![l] = "pending"]
                          /\ pc' = [pc EXCEPT ![l] = "insert"]
  /\ log' = [log EXCEPT ![l] = NoLog]
  /\ UNCHANGED <<pools, current_prices, filter, received, inserted, delivered,
                 owner_vars, codec_vars>>

\* handle_log_event, second critical section:
\* old_price = guard.current_prices.insert(pool_address, new_price.clone())
HandleInsert(l) ==
  /\ pc[l] = "insert"
  /\ LET new_price == frame[l].new_price
         ins == HashMapInsert(current_prices, new_price.pool_address, new_price)
     IN  /\ current_prices' = ins.map
         /\ frame' = [frame EXCEPT ![l].old_price = ins.old]
         /\ inserted' = Append(inserted,
              [task |-> l, k |-> received[l],
               address |-> new_price.pool_address,
               new |-> new_price, old |-> ins.old])
  /\ pc' = [pc EXCEPT ![l] = "notify"]
  /\ UNCHANGED <<pools, liquidity_pools, filter, log, result, received, decoded,
                 delivered, owner_vars, codec_vars>>

\* A handler that invokes the callback twice for one record.
HandleNotify_twice(l) ==
  /\ pc[l] = "notify"
  /\ LET call == [task |-> l, k |-> received[l],
                  pool |-> frame[l].cached_pool,
                  new |-> frame[l].new_price, old |-> frame[l].old_price]
     IN  delivered' = delivered \o <<call, call>>
  /\ result' = [result EXCEPT ![l] = "Ok"]
  /\ frame' = [frame EXCEPT ![l] = NoFrame]
  /\ pc' = [pc EXCEPT ![l] = "next"]
  /\ UNCHANGED <<pools, liquidity_pools, current_prices, filter, log,
                 received, decoded, inserted, owner_vars, codec_vars>>

\* handle_log_event, third critical section: the callback, then Ok(()).
HandleNotify(l) ==
  /\ pc[l] = "notify"
  /\ delivered' = Append(delivered,
       [task |-> l, k |-> received[l],
        pool |-> frame[l].cached_pool,
        new |-> frame[l].new_price, old |-> frame[l].old_price])
  /\ result' = [result EXCEPT ![l] = "Ok"]
  /\ frame' = [frame EXCEPT ![l] = NoFrame]
  /\ pc' = [pc EXCEPT ![l] = "next"]
  /\ UNCHANGED <<pools, liquidity_pools, current_prices, filter, log,
                 received, decoded, inserted, owner_vars, codec_vars>>

(***************************************************************************)
(* A codec driven directly: a caller builds a log or a snapshot (CodecCall) *)
(* and the codec's method runs on it (CodecParse, CodecSeed)                *)
(***************************************************************************)
DecimalPairs == {<<18, 6>>, <<6, 18>>, <<18, 18>>}

\* sqrt(2000 / 10^12) * 2^96 = 3.5432..e24 to four digits: 12005 * 2^68
\* (test_uniswap_v3_price_calculation takes the f64 nearest below it).
SqrtPriceX96For2000 == U256(12005, 68, 0)

\* reserve0 (amount0), reserve1 (amount1) and sqrtPriceX96 of the payloads:
\* 10^18 and 2000 * 10^6, a zero reserve0, a zero reserve1, small reserves.
PayloadFields ==
  {<<U256(1, 18, 18), U256(2000, 6, 6), U256(1, X96, 0)>>,
   <<U256(7, 0, 0),   U256(9, 0, 0),    SqrtPriceX96For2000>>,
   <<U256(0, 0, 0),   U256(6, 0, 0),    U256(3, X96, 0)>>,
   <<U256(6, 0, 0),   U256(3, 0, 0),    U256(1, X96 - 1, 0)>>,
   <<U256(3, 0, 0),   U256(0, 0, 0),    U256(0, 0, 0)>>}

\* Payloads of 0, 32, .., 32 * MaxWords bytes, and the same with 31 loose
\* bytes more (31, 63, .., 159, ..).
CodecPayloads ==
  {Payload(f[1], f[2], f[3], k, 0) : f \in PayloadFields, k \in 0..MaxWords}
  \cup {Payload(U256(3, 0, 0), U256(6, 0, 0), U256(1, X96, 0), k, WordBytes - 1) :
          k \in 0..MaxWords}

TopicOfAddress(address) == B256("000000000000000000000000", address)

CodecTopics ==
  {<<>>, <<SWAP_V3_TOPIC>>, <<swap_topic>>, <<sync_topic>>, <<TRANSFER_TOPIC>>,
   <<SWAP_V3_TOPIC, TopicOfAddress("0xB1"), TopicOfAddress("0xB2")>>}

CodecLogs ==
  {EthereumLog("0xA1", t, d) : t \in CodecTopics, d \in CodecPayloads}

NoReserves == [reserve0 |-> U256_ZERO, reserve1 |-> U256_ZERO]
NoCall == [op |-> "none", log |-> NoLog]
Created == [op |-> "new", topics |-> <<>>, ok |-> TRUE, value |-> "unit"]

CodecIdle ==
  /\ cdc = UniswapV2_new("0xA1", 18, 6)
  /\ cdc_call = NoCall
  /\ cdc_last = Created
  /\ cdc_synced = NoReserves

\* UniswapV2::new or UniswapV3::new
CodecInit ==
  /\ \E d \in DecimalPairs :
       cdc \in {UniswapV2_new("0xA1", d[1], d[2]), UniswapV3_new("0xA1", d[1], d[2])}
  /\ cdc_call = NoCall
  /\ cdc_last = Created
  /\ cdc_synced = NoReserves

\* The caller has a log to decode or a snapshot to seed the codec with.
CodecCall ==
  /\ cdc_call = NoCall
  /\ \/ \E lg \in CodecLogs : cdc_call' = [op |-> "parse", log |-> lg]
     \/ \E snapshot \in CodecPayloads :
          cdc_call' = [op |-> "seed", log |-> EthereumLog(ADDRESS_ZERO, <<>>, snapshot)]
  /\ UNCHANGED <<cdc, cdc_last, cdc_synced>>
  /\ UNCHANGED scanner_vars

\* What the caller sees of a Result, with the method and the topics it
\* was called on.
Returned(op, topics, res) ==
  IF res.ok THEN [op |-> op, topics |-> topics, ok |-> TRUE, value |-> res.value]
  ELSE [op |-> op, topics |-> topics, ok |-> FALSE, err |-> res.err]

\* lp.parse_swap_event_data(&log)
CodecParse ==
  /\ cdc_call.op = "parse"
  /\ LET lg == cdc_call.log
         res == parse_swap_event_data(cdc, lg)
     IN  /\ cdc' = res.self
         /\ cdc_last' = Returned("parse", lg.topics, res)
         /\ cdc_synced' =
              IF cdc.kind = "UniswapV2" /\ res.ok
                 /\ Len(lg.topics) > 0 /\ lg.topics[1] = sync_topic
              THEN [reserve0 |-> WordAt(lg.data, 0), reserve1 |-> WordAt(lg.data, 1)]
              ELSE cdc_synced
  /\ cdc_call' = NoCall
  /\ UNCHANGED scanner_vars

\* lp.apply_initial_state(result)
CodecSeed ==
  /\ cdc_call.op = "seed"
  /\ LET snapshot == cdc_call.log.data
         res == apply_initial_state(cdc, snapshot)
     IN  /\ cdc' = res.self
         /\ cdc_last' = Returned("seed", <<>>, res)
         /\ cdc_synced' =
              IF cdc.kind = "UniswapV2" /\ DataLen(snapshot) >= SyncDataLen
              THEN [reserve0 |-> WordAt(snapshot, 0), reserve1 |-> WordAt(snapshot, 1)]
              ELSE cdc_synced
  /\ cdc_call' = NoCall
  /\ UNCHANGED scanner_vars

(***************************************************************************)
(* Specifications                                                          *)
(***************************************************************************)
Init == ScannerInit /\ CodecIdle

Next ==
  \/ \E l \in Loops :
       \/ Start(l)
       \/ Subscribe(l)
       \/ SubscribeFails(l)
       \/ StreamNext(l)
       \/ StreamEnd(l)
       \/ HandleDecode(l)
       \/ HandleInsert(l)
       \/ HandleNotify(l)
  \/ DropScanner

Spec == Init /\ [][Next]_vars

\* The first subscription loop on its own, while later calls of
\* Scanner::start replace the registry under it.
LoopNext ==
  \/ \E l \in Loops : Start(l)
  \/ Subscribe(1)
  \/ SubscribeFails(1)
  \/ StreamNext(1)
  \/ StreamEnd(1)
  \/ HandleDecode(1)
  \/ HandleInsert(1)
  \/ HandleNotify(1)

\* The runtime polls a spawned task that can run, the mutex is granted in
\* FIFO order and the callback returns: a record taken from the stream goes
\* through all of handle_log_event.
\* HandleDecode(1) has no guard but pc[1] = "handle" (every branch of it has
\* a successor), so weak fairness of it is written with its enabling
\* condition spelled out: ([]<>~ENABLED <<A>>_vars) \/ []<><<A>>_vars.
LoopFairness ==
  /\ ([]<>(pc[1] # "handle")) \/ ([]<><<HandleDecode(1)>>_vars)
  /\ WF_vars(HandleInsert(1))
  /\ WF_vars(HandleNotify(1))

LoopSpec == Init /\ [][LoopNext]_vars /\ LoopFairness

CodecSpecInit == ScannerInit /\ CodecInit

CodecNext == CodecCall \/ CodecParse \/ CodecSeed

CodecSpec == CodecSpecInit /\ [][CodecNext]_vars

\* The price cache on its own: any sequence of entries inserted into it.
CacheEntries ==
  {PoolPrice(a, p, F64Div(F64_ONE, p), t) :
     a \in PoolAddresses, p \in {F64(2, 1, 0, 0), F64(1, 2, 0, 0)}, t \in Timestamps}

CacheInsert ==
  /\ Len(inserted) < MaxInserts
  /\ \E new_price \in CacheEntries :
       LET ins == HashMapInsert(current_prices, new_price.pool_address, new_price)
       IN  /\ current_prices' = ins.map
           /\ inserted' = Append(inserted,
                [task |-> 0, k |-> Len(inserted) + 1,
                 address |-> new_price.pool_address,
                 new |-> new_price, old |-> ins.old])
  /\ UNCHANGED <<pools, liquidity_pools, pc, filter, log, frame, result, received,
                 decoded, delivered, owner_vars, codec_vars>>

CacheSpec == Init /\ [][CacheInsert]_vars

(***************************************************************************)
(* Properties of the codecs (checked under CodecSpec)                      *)
(***************************************************************************)
\* The step in which parse_swap_event_data runs on cdc_call.log.
ParseStep == cdc_call.op = "parse" /\ cdc_call' = NoCall

FirstTopicIs(topics, t) == Len(topics) > 0 /\ topics[1] = t

\* The last call on cdc was a parse of an event with first topic t that
\* returned Ok.
LastDecoded(t) ==
  cdc_last.op = "parse" /\ cdc_last.ok /\ FirstTopicIs(cdc_last.topics, t)

\* C1: for both codecs, parse_swap_event_data on a log whose first topic is
\* not among the codec's get_event_signatures() returns an error and leaves
\* the codec's state unchanged, whatever the length of the payload.
C1_UnknownEventFails ==
  [][(/\ ParseStep
      /\ Len(cdc_call.log.topics) > 0
      /\ cdc_call.log.topics[1] \notin get_event_signatures(cdc))
     => (~cdc_last'.ok /\ cdc' = cdc)]_vars

\* The length in bytes of the non-indexed fields of each event.
V2SwapDataLen == 128

RequiredDataLen(t) ==
  IF t = SWAP_V3_TOPIC THEN V3SwapDataLen
  ELSE IF t = sync_topic THEN SyncDataLen
  ELSE V2SwapDataLen

\* C2: for every event a codec recognizes (V3 swap, V2 sync, V2 swap),
\* parse_swap_event_data on a payload shorter than the event's fixed encoding
\* returns an error and leaves the codec's state unchanged.
C2_ShortPayloadFails ==
  [][(/\ ParseStep
      /\ Len(cdc_call.log.topics) > 0
      /\ cdc_call.log.topics[1] \in get_event_signatures(cdc)
      /\ DataLen(cdc_call.log.data) < RequiredDataLen(cdc_call.log.topics[1]))
     => (~cdc_last'.ok /\ cdc' = cdc)]_vars

\* C4: on a UniswapV2 codec a swap event changes neither reserve, and the
\* price it returns is the price of the reserves the last successful sync
\* (or seed) set, whatever the swap's amounts are; a swap right after a sync
\* returns the price the sync returned.
C4_SwapUsesSyncedReserves ==
  [][(/\ ParseStep
      /\ cdc.kind = "UniswapV2"
      /\ FirstTopicIs(cdc_call.log.topics, swap_topic))
     => (/\ cdc'.reserve0 = cdc.reserve0
         /\ cdc'.reserve1 = cdc.reserve1
         /\ cdc_last'.ok
         /\ cdc_last'.value.price =
              F64Mul(F64Div(U256ToF64(cdc_synced.reserve1),
                            IF U256IsZero(cdc_synced.reserve0) THEN F64_INF
                            ELSE U256ToF64(cdc_synced.reserve0)),
                     F64Powi10(cdc.token0_decimals - cdc.token1_decimals))
         /\ (LastDecoded(sync_topic)
               => cdc_last'.value.price = cdc_last.value.price))]_vars

\* A swap with non-zero amounts was decoded after a sync had set reserves,
\* other than the amounts, with a non-zero price.
C4_Witness ==
  /\ cdc.kind = "UniswapV2"
  /\ LastDecoded(swap_topic)
  /\ cdc_last.value.price # F64_ZERO
  /\ ~U256IsZero(cdc_last.value.amount0)
  /\ cdc_last.value.amount0 # cdc.reserve0
  /\ cdc_synced = [reserve0 |-> cdc.reserve0, reserve1 |-> cdc.reserve1]

\* C10: after a valid sync on a UniswapV2 codec with reserve0 > 0 the price
\* p satisfies p * reserve0 = reserve1 * 10^(token0_decimals - token1_decimals);
\* with reserve0 = 0 the price is 0.0; with decimals (18, 6), reserve0 = 10^18
\* and reserve1 = 2000 * 10^6 the price is 2000.
C10_SyncPrice ==
  (cdc.kind = "UniswapV2" /\ LastDecoded(sync_topic)) =>
    LET r0 == cdc_synced.reserve0
        r1 == cdc_synced.reserve1
        p  == cdc_last.value.price
    IN  /\ get_current_price(cdc) = p
        /\ F64IsFinite(p)
        /\ U256IsZero(r0) => p = F64_ZERO
        /\ ~U256IsZero(r0) =>
             F64Mul(p, U256ToF64(r0)) =
               F64Mul(U256ToF64(r1),
                      F64Powi10(cdc.token0_decimals - cdc.token1_decimals))
        /\ (/\ cdc.token0_decimals = 18 /\ cdc.token1_decimals = 6
            /\ r0 = U256(1, 18, 18) /\ r1 = U256(2000, 6, 6))
           => p = F64(2000, 1, 0, 0)

\* The sync of the scenario was decoded: decimals (18, 6), reserves 10^18
\* and 2000 * 10^6.
C10_Witness ==
  /\ cdc.kind = "UniswapV2" /\ LastDecoded(sync_topic)
  /\ cdc.token0_decimals = 18 /\ cdc.token1_decimals = 6
  /\ cdc_synced = [reserve0 |-> U256(1, 18, 18), reserve1 |-> U256(2000, 6, 6)]
  /\ cdc_last.value.price = F64(2000, 1, 0, 0)

\* The integer part of v * 2^e2 * 5^e5, computed in 32-bit steps that keep
\* 24 significant bits; 2147483647 when it does not fit.
RECURSIVE Scaled(_, _, _)
Scaled(v, e2, e5) ==
  IF v = 0 THEN 0
  ELSE IF e5 > 0 THEN (IF v < 134217728 THEN Scaled(v * 5, e2, e5 - 1)
                       ELSE Scaled(v \div 2, e2 + 1, e5))
  ELSE IF e5 < 0 THEN (IF v >= 134217728 THEN Scaled(v \div 5, e2, e5 + 1)
                       ELSE Scaled(v * 2, e2 - 1, e5))
  ELSE IF e2 > 0 THEN (IF v < 1073741824 THEN Scaled(v * 2, e2 - 1, 0)
                       ELSE 2147483647)
  ELSE IF e2 < 0 THEN Scaled(v \div 2, e2 + 1, 0)
  ELSE v

\* The integer part of a finite f64 with an integral mantissa.
F64Trunc(x) == Scaled(x.n, x.e2, x.e5)

\* The step in which a UniswapV3 codec decodes a well-formed swap event.
V3SwapStep ==
  /\ ParseStep
  /\ cdc.kind = "UniswapV3"
  /\ FirstTopicIs(cdc_call.log.topics, SWAP_V3_TOPIC)
  /\ DataLen(cdc_call.log.data) >= V3SwapDataLen

\* C11: after a valid swap event on a UniswapV3 codec the price p satisfies
\* p * 2^192 = sqrtPrice^2 * 10^(token0_decimals - token1_decimals), where
\* sqrtPrice is the word in data bytes 64..96, and it is the current price;
\* with decimals (18, 6) and the sqrtPrice of a price of 2000 the price is
\* within 1 of 2000.
C11_SwapPrice ==
  [][V3SwapStep =>
       LET sqrtPrice == WordAt(cdc_call.log.data, SqrtPriceWord)
           p == cdc_last'.value.price
       IN  /\ cdc_last'.ok
           /\ cdc'.sqrt_price_x96 = sqrtPrice
           /\ get_current_price(cdc') = p
           /\ F64Mul(p, F64(1, 1, 2 * X96, 0)) =
                F64Mul(F64Mul(U256ToF64(sqrtPrice), U256ToF64(sqrtPrice)),
                       F64Powi10(cdc.token0_decimals - cdc.token1_decimals))
           /\ (/\ cdc.token0_decimals = 18 /\ cdc.token1_decimals = 6
               /\ sqrtPrice = SqrtPriceX96For2000)
              => (p.d = 1 /\ F64Trunc(p) \in {1999, 2000})]_vars

\* The swap of the scenario was decoded: decimals (18, 6), the sqrtPrice of
\* a price of 2000, and a price of 2000 and a fraction.
C11_Witness ==
  /\ cdc.kind = "UniswapV3" /\ LastDecoded(SWAP_V3_TOPIC)
  /\ cdc.token0_decimals = 18 /\ cdc.token1_decimals = 6
  /\ cdc.sqrt_price_x96 = SqrtPriceX96For2000
  /\ F64Trunc(cdc_last.value.price) = 2000

(***************************************************************************)
(* Properties of the price cache (checked under CacheSpec and Spec)        *)
(***************************************************************************)
\* The insertions before the i-th that were made for the same address.
EarlierInserts(i) ==
  {j \in 1..(i - 1) : inserted[j].address = inserted[i].address}

SetMax(S) == CHOOSE x \in S : \A y \in S : y <= x

\* C5: the insert-and-return-previous of the price cache returns None for
\* the first entry of an address and afterwards the entry most recently
\* inserted for that address, never an entry of another address.
C5_InsertReturnsPrevious ==
  \A i \in DOMAIN inserted :
    /\ inserted[i].old =
         IF EarlierInserts(i) = {} THEN None
         ELSE Some(inserted[SetMax(EarlierInserts(i))].new)
    /\ inserted[i].old.some =>
         inserted[i].old.value.pool_address = inserted[i].address

\* Three insertions, for 0xA1, 0xA2 and 0xA1 again with another entry: the
\* second returned None and the third returned the first.
C5_Witness ==
  /\ Len(inserted) = 3
  /\ inserted[1].address = "0xA1"
  /\ inserted[2].address = "0xA2"
  /\ inserted[3].address = "0xA1"
  /\ inserted[3].new # inserted[1].new
  /\ inserted[2].old = None
  /\ inserted[3].old = Some(inserted[1].new)
  /\ current_prices["0xA1"] = inserted[3].new

(***************************************************************************)
(* Properties of the scanner (checked under Spec)                          *)
(***************************************************************************)
\* The step in which handle_log_event of task l looks up and decodes log[l].
DecodeStep(l) == pc[l] = "handle" /\ pc'[l] # "handle"

\* The errors parse_swap_event_data returns.
DecodeErrors ==
  {"UniswapV3 Swap log data too short", "Log has no topics",
   "UniswapV2 Sync log data too short", "Not a recognized UniswapV2 event"}

\* C3: when parse_swap_event_data returns an error inside handle_log_event,
\* the record changes no codec and no cache entry and invokes no callback;
\* a successful decode replaces both reserves (or the sqrt price) by the
\* words of the record, or leaves the codec as it was.
C3_DecodeFailureChangesNothing ==
  [][\A l \in Loops :
       DecodeStep(l) =>
         /\ result'[l] \in DecodeErrors =>
              /\ liquidity_pools' = liquidity_pools
              /\ current_prices' = current_prices
              /\ delivered' = delivered
              /\ inserted' = inserted
              /\ pc'[l] = "next"
         /\ result'[l] = "pending" =>
              LET a == log[l].address
                  old == liquidity_pools[a]
                  new == liquidity_pools'[a]
              IN  IF old.kind = "UniswapV2"
                  THEN \/ new = old
                       \/ new = [old EXCEPT !.reserve0 = WordAt(log[l].data, 0),
                                            !.reserve1 = WordAt(log[l].data, 1)]
                  ELSE new = [old EXCEPT !.sqrt_price_x96 =
                                           WordAt(log[l].data, SqrtPriceWord)]]_vars

\* A sync one byte short was refused for a pool whose reserves and cache
\* entry an earlier sync had set.
C3_Witness ==
  \E l \in Loops :
    /\ result[l] = "UniswapV2 Sync log data too short"
    /\ pc[l] = "next"
    /\ HashMapContains(current_prices, "0xA1")
    /\ HashMapContains(liquidity_pools, "0xA1")
    /\ ~U256IsZero(liquidity_pools["0xA1"].reserve0)
    /\ Len(delivered) = 1

\* C6: a record whose address is not in the registry is a no-op: no callback,
\* no change of the cache or of a codec, and the loop goes on to the next
\* record.
C6_UntrackedIsNoOp ==
  [][\A l \in Loops :
       (DecodeStep(l) /\ ~HashMapContains(liquidity_pools, log[l].address)) =>
         /\ delivered' = delivered
         /\ inserted' = inserted
         /\ current_prices' = current_prices
         /\ liquidity_pools' = liquidity_pools
         /\ pools' = pools
         /\ pc'[l] = "next"]_vars

\* A task whose filter still names 0xA2 took a record of 0xA2 after a second
\* start had left 0xA2 out of the registry, and went back to its stream.
C6_Witness ==
  \E l \in Loops :
    /\ result[l] = "No liquidity pool for address"
    /\ pc[l] = "next"
    /\ received[l] = 2
    /\ Len(delivered) = 1

\* Record k of task l has been through handle_log_event.
FullyProcessed(l, k) ==
  \/ k < received[l]
  \/ k = received[l] /\ pc[l] \in {"next", "stopped_ok", "stopped_err"}

Callbacks(l, k) ==
  {i \in DOMAIN delivered : delivered[i].task = l /\ delivered[i].k = k}

C8_DeliveredInFeedOrder ==
  \A l \in Loops :
    /\ \A i, j \in DOMAIN delivered :
         (/\ i < j
          /\ delivered[i].task = l /\ delivered[j].task = l
          /\ delivered[i].pool.address = delivered[j].pool.address)
         => delivered[i].k < delivered[j].k
    /\ \A k \in 1..received[l] :
         (k < received[l] /\ <<l, k>> \in decoded) => Callbacks(l, k) # {}
    /\ pc[l] \in {"handle", "insert", "notify"} => Callbacks(l, received[l]) = {}

\* A task delivered two records of the same pool.
C8_Witness ==
  \E l \in Loops :
    /\ Len(delivered) = 2
    /\ delivered[1].task = l /\ delivered[2].task = l
    /\ delivered[1].pool.address = delivered[2].pool.address
    /\ delivered[1].new # delivered[2].new

\* C9: the insert-and-return-previous is indivisible under every interleaving
\* of the tasks: of two events inserted for one pool the later one obtains an
\* entry inserted no earlier than the first one's own, so the two never
\* obtain the same previous entry, and never both None.
C9_NoSharedPrevious ==
  \A i, j \in DOMAIN inserted :
    (i < j /\ inserted[i].address = inserted[j].address) =>
      /\ inserted[j].old.some
      /\ SetMax(EarlierInserts(j)) >= i
      /\ inserted[j].old = Some(inserted[SetMax(EarlierInserts(j))].new)
      /\ ~(inserted[i].old = None /\ inserted[j].old = None)

\* Two tasks each inserted an entry for the same pool while both were
\* inside handle_log_event.
C9_Witness ==
  /\ Len(inserted) = 2
  /\ inserted[1].task # inserted[2].task
  /\ inserted[1].address = inserted[2].address
  /\ pc[inserted[1].task] = "notify"
  /\ pc[inserted[2].task] = "notify"

\* The entries the price cache holds and the entries the callback was given.
PriceEntries ==
  {current_prices[a] : a \in DOMAIN current_prices}
    \cup {delivered[i].new : i \in DOMAIN delivered}
    \cup {delivered[i].old.value : i \in {j \in DOMAIN delivered : delivered[j].old.some}}

\* C12: every entry stored in the price cache or passed to the callback has
\* a token0_price that is positive and finite.
C12_Token0PricePositiveFinite ==
  \A e \in PriceEntries :
    F64IsFinite(e.token0_price) /\ ~F64IsZero(e.token0_price)

\* The entries handle_log_event has built: those inserted and those of the
\* records in progress.
BuiltEntries ==
  {inserted[i].new : i \in DOMAIN inserted}
    \cup {frame[l].new_price : l \in {k \in Loops : frame[k].entered}}

\* C13: every entry handle_log_event builds has token1_price = 1 / token0_price
\* when token0_price > 0, and a token1_price that is not the result of a
\* division by zero (neither infinite nor NaN) when token0_price is 0.
C13_Token1PriceReciprocalOrGuarded ==
  \A e \in BuiltEntries :
    IF F64IsZero(e.token0_price)
    THEN F64IsFinite(e.token1_price)
    ELSE e.token1_price = F64Div(F64_ONE, e.token0_price)

(***************************************************************************)
(* Properties of the subscription loops (checked under Spec and FairSpec)  *)
(***************************************************************************)
\* run_log_subscription has returned.
Stopped == {"stopped_ok", "stopped_err"}

\* The stream of the task is open: subscribe_logs has succeeded and
\* stream.next() has not yet returned None.
Streaming == {"next", "handle", "insert", "notify"}

\* C14: an error of a record never stops the loop: a loop stops only where
\* the subscription fails or the stream ends, every record taken from the
\* stream is processed to the end and the loop is back at the stream, and
\* when the feed has closed every record that decoded has had its callback.
C14_ErrorsDoNotStopLoop ==
  /\ [][\A l \in Loops :
          (pc[l] \notin Stopped /\ pc'[l] \in Stopped)
            => pc[l] \in {"subscribe", "next"}]_vars
  /\ \A l \in Loops : (pc[l] = "handle") ~> (pc[l] = "next")
  /\ [](\A l \in Loops :
          pc[l] = "stopped_ok" =>
            \A k \in 1..received[l] :
              <<l, k>> \in decoded => Callbacks(l, k) # {})

\* A feed of two records has closed: the first record failed to decode, the
\* second was decoded and delivered.
C14_Witness ==
  \E l \in Loops :
    /\ pc[l] = "stopped_ok"
    /\ received[l] = 2
    /\ <<l, 1>> \notin decoded
    /\ <<l, 2>> \in decoded
    /\ Callbacks(l, 2) # {}

\* The history entries of task l.
InsertedBy(l) == SelectSeq(inserted, LAMBDA e : e.task = l)
DeliveredBy(l) == SelectSeq(delivered, LAMBDA e : e.task = l)

\* C15: a loop that has stopped stays stopped: it never subscribes again,
\* takes no record, decodes nothing, inserts nothing and invokes no callback;
\* once every loop has stopped no codec and no cache entry changes.
C15_StoppedIsTerminal ==
  [][/\ \A l \in Loops :
          pc[l] \in Stopped =>
            /\ pc'[l] = pc[l]
            /\ received'[l] = received[l]
            /\ log'[l] = log[l]
            /\ frame'[l] = frame[l]
            /\ result'[l] = result[l]
            /\ {d \in decoded' : d[1] = l} = {d \in decoded : d[1] = l}
            /\ InsertedBy(l)' = InsertedBy(l)
            /\ DeliveredBy(l)' = DeliveredBy(l)
     /\ (\A l \in Loops : pc[l] \in Stopped) =>
          /\ liquidity_pools' = liquidity_pools
          /\ current_prices' = current_prices
          /\ delivered' = delivered]_vars

\* A loop has stopped after a record of its own while another loop is in the
\* middle of a record.
C15_Witness ==
  \E l, m \in Loops :
    /\ pc[l] = "stopped_ok"
    /\ received[l] = 1
    /\ Len(DeliveredBy(l)) = 1
    /\ pc[m] = "notify"

\* C16: a loop that ends because its subscription failed or its stream
\* closed ends with an error, and the owner that called Scanner::start is
\* given that error.
C16_FeedEndPropagatesError ==
  \A l \in Loops :
    pc[l] \in Stopped => (pc[l] = "stopped_err" /\ start_result[l] = "Err")

\* C17: the owner's stop signal takes effect between records: once the owner
\* has given up the Scanner no loop takes another record from its stream,
\* and a loop that has stopped has no record in progress.
C17_StopBetweenRecords ==
  /\ [][scanner_dropped => \A l \in Loops : received'[l] = received[l]]_vars
  /\ [](\A l \in Loops :
          pc[l] \in Stopped =>
            /\ frame[l] = NoFrame
            /\ \A k \in 1..received[l] :
                 <<l, k>> \in decoded => Callbacks(l, k) # {})

\* C18: Scanner::start spawns a subscription loop at most once per Scanner,
\* so at most one task that writes codecs and the cache exists at any time.
C18_SingleWriter ==
  Cardinality({l \in Loops : pc[l] # "unspawned"}) <= 1

\* C19: every tracked pool has the codec of the pool type of the protocol it
\* was discovered from, and the callback is given the descriptor of the
\* address of the entry.
C19_CodecMatchesPoolType ==
  /\ \A i \in DOMAIN pools : \A j \in DOMAIN protocol_configs :
       protocol_configs[j].id = pools[i].protocol =>
         liquidity_pools[pools[i].address].kind = protocol_configs[j].pool_type
  /\ \A i \in DOMAIN delivered :
       delivered[i].pool.address = delivered[i].new.pool_address

\* C20: while a subscription loop is streaming, the tracked addresses, the
\* descriptors and the codec instances stay as they are; a codec changes
\* only by decoding a record of its own address.
C20_RegistryFixedWhileStreaming ==
  [][(\E l \in Loops : pc[l] \in Streaming) =>
       /\ pools' = pools
       /\ DOMAIN liquidity_pools' = DOMAIN liquidity_pools
       /\ \A a \in DOMAIN liquidity_pools :
            liquidity_pools'[a] # liquidity_pools[a] =>
              \E l \in Loops : DecodeStep(l) /\ log[l].address = a]_vars

(***************************************************************************)
(* Properties of the subscription filter (checked under Spec)              *)
(***************************************************************************)
\* The step in which Scanner::start of task l builds its Filter.
StartStep(l) == pc[l] = "unspawned" /\ pc'[l] = "subscribe"

\* The union of get_event_signatures() over the codecs of a registry.
TrackedSignatures(map) ==
  UNION {get_event_signatures(map[a]) : a \in DOMAIN map}

\* C21: the filter Scanner::start subscribes with names exactly the tracked
\* pool addresses and exactly the signatures the codecs of the tracked pools
\* recognize: none that no tracked codec recognizes, and all that one does.
C21_FilterIsTrackedUnion ==
  [][\A l \in Loops :
       StartStep(l) =>
         /\ filter'[l].address = DOMAIN liquidity_pools'
         /\ filter'[l].topics0 = TrackedSignatures(liquidity_pools')]_vars

(***************************************************************************)
(* Properties of the seed and of the current price (checked under          *)
(* CodecSpec)                                                              *)
(***************************************************************************)
\* The step in which apply_initial_state runs on the snapshot cdc_call.log.data.
SeedStep == cdc_call.op = "seed" /\ cdc_call' = NoCall

\* The bytes of a snapshot a codec reads: slot0()'s first word, or both
\* words of getReserves().
SeedDataLen(lp) == IF lp.kind = "UniswapV2" THEN SyncDataLen ELSE WordBytes

\* p is the price of the reserves r0, r1 with decimals d0, d1.
IsReservePrice(p, r0, r1, d0, d1) ==
  IF U256IsZero(r0) THEN p = F64_ZERO
  ELSE F64Mul(p, U256ToF64(r0)) = F64Mul(U256ToF64(r1), F64Powi10(d0 - d1))

\* p is the price of the square root price s (times 2^96) with decimals d0, d1.
IsSqrtPrice(p, s, d0, d1) ==
  F64Mul(p, F64(1, 1, 2 * X96, 0)) =
    F64Mul(F64Mul(U256ToF64(s), U256ToF64(s)), F64Powi10(d0 - d1))

\* C22: apply_initial_state never returns an error; a snapshot shorter than
\* 32 bytes (UniswapV3) or 64 bytes (UniswapV2) leaves the codec unchanged; a
\* snapshot long enough replaces the sqrt price, or both reserves, by its
\* leading words and get_current_price is the price of those words.
C22_SeedNeverFails ==
  [][SeedStep =>
       LET snapshot == cdc_call.log.data
           d0 == cdc.token0_decimals
           d1 == cdc.token1_decimals
       IN  /\ cdc_last'.ok
           /\ DataLen(snapshot) < SeedDataLen(cdc) => cdc' = cdc
           /\ DataLen(snapshot) >= SeedDataLen(cdc) =>
                IF cdc.kind = "UniswapV2"
                THEN /\ cdc' = [cdc EXCEPT !.reserve0 = WordAt(snapshot, 0),
                                           !.reserve1 = WordAt(snapshot, 1)]
                     /\ IsReservePrice(get_current_price(cdc'),
                                       WordAt(snapshot, 0), WordAt(snapshot, 1),
                                       d0, d1)
                ELSE /\ cdc' = [cdc EXCEPT !.sqrt_price_x96 = WordAt(snapshot, 0)]
                     /\ IsSqrtPrice(get_current_price(cdc'),
                                    WordAt(snapshot, 0), d0, d1)]_vars

\* A UniswapV2 codec with decimals (18, 6) was seeded with the reserves 10^18
\* and 2000 * 10^6 and its current price is 2000.
C22_Witness ==
  /\ cdc_last.op = "seed" /\ cdc_last.ok
  /\ cdc.kind = "UniswapV2"
  /\ cdc.token0_decimals = 18 /\ cdc.token1_decimals = 6
  /\ cdc.reserve0 = U256(1, 18, 18) /\ cdc.reserve1 = U256(2000, 6, 6)
  /\ get_current_price(cdc) = F64(2000, 1, 0, 0)

\* What a codec stores besides its constructor's arguments.
StoredState(lp) ==
  IF lp.kind = "UniswapV2" THEN <<lp.reserve0, lp.reserve1>>
  ELSE <<lp.sqrt_price_x96>>

\* C23: get_current_price depends on the stored state of the codec only (a
\* call that leaves the reserves or the sqrt price as they were leaves it as
\* it was, and it is never NaN); right after a successful
\* parse_swap_event_data it equals the price of the returned SwapEventData;
\* a failed decode does not change it.
C23_CurrentPriceFollowsState ==
  [][/\ cdc'.kind = cdc.kind
     /\ cdc'.token0_decimals = cdc.token0_decimals
     /\ cdc'.token1_decimals = cdc.token1_decimals
     /\ get_current_price(cdc') # F64_NAN
     /\ StoredState(cdc') = StoredState(cdc) =>
          get_current_price(cdc') = get_current_price(cdc)
     /\ (ParseStep /\ cdc_last'.ok) =>
          cdc_last'.value.price = get_current_price(cdc')
     /\ (ParseStep /\ ~cdc_last'.ok) =>
          get_current_price(cdc') = get_current_price(cdc)]_vars

\* A UniswapV3 codec decoded a swap of sqrt price 3 * 2^96 and its current
\* price is the non-zero price the decode returned.
C23_Witness ==
  /\ cdc.kind = "UniswapV3"
  /\ LastDecoded(SWAP_V3_TOPIC)
  /\ cdc.sqrt_price_x96 = U256(3, X96, 0)
  /\ cdc_last.value.price = get_current_price(cdc)
  /\ cdc_last.value.price # F64_ZERO

(***************************************************************************)
(* Properties of the cache and the registry across tasks (checked under    *)
(* Spec)                                                                   *)
(***************************************************************************)
\* The callbacks before the i-th that were made for the same pool.
EarlierCallbacks(i) ==
  {j \in 1..(i - 1) : delivered[j].new.pool_address = delivered[i].new.pool_address}

\* C24: for every pool, the first callback is given None as the old entry
\* and every later callback is given the new entry of the callback before it
\* for that pool, under every interleaving of the spawned tasks.
C24_OldIsPreviousNew ==
  \A i \in DOMAIN delivered :
    delivered[i].old =
      IF EarlierCallbacks(i) = {} THEN None
      ELSE Some(delivered[SetMax(EarlierCallbacks(i))].new)

\* No task is between taking a record and returning from handle_log_event.
NoRecordInProgress == \A l \in Loops : pc[l] \notin {"handle", "insert", "notify"}

\* C25: whenever no record is in the middle of being processed, the cached
\* token0_price of every pool that has a cache entry is the get_current_price
\* of the pool's codec: the cache never holds the price of an older record
\* than the one the codec state reflects.
C25_CacheMatchesCodec ==
  NoRecordInProgress =>
    \A a \in DOMAIN current_prices :
      HashMapContains(liquidity_pools, a) =>
        current_prices[a].token0_price = get_current_price(liquidity_pools[a])

\* The step of handle_log_event task l takes, and the pool its record is of.
RecordStep(l) == pc[l] \in {"handle", "insert", "notify"} /\ pc'[l] # pc[l]

RecordAddress(l) ==
  IF pc[l] = "handle" THEN log[l].address ELSE frame[l].new_price.pool_address

\* C26: processing a record of pool A, whether it succeeds or fails, leaves
\* the codec and the cache entry of every other pool B as they were; the
\* cache holds entries of tracked addresses only, each stored under the pool
\* address the entry itself names.
C26_OtherPoolsUntouched ==
  /\ [][\A l \in Loops :
          RecordStep(l) =>
            \A b \in PoolAddresses \ {RecordAddress(l)} :
              /\ HashMapContains(liquidity_pools', b) = HashMapContains(liquidity_pools, b)
              /\ HashMapContains(liquidity_pools, b) =>
                   liquidity_pools'[b] = liquidity_pools[b]
              /\ HashMapContains(current_prices', b) = HashMapContains(current_prices, b)
              /\ HashMapContains(current_prices, b) =>
                   current_prices'[b] = current_prices[b]]_vars
  /\ [](\A a \in DOMAIN current_prices :
          /\ HashMapContains(liquidity_pools, a)
          /\ current_prices[a].pool_address = a)

====
